---- MODULE Spec2Model ----
(***************************************************************************)
(* Model of requestCertificate (src/src/AcmeWorkflows.ts): one invocation  *)
(* of the certificate issuance workflow against its collaborators (the     *)
(* account/order/challenge resources, the fulfillment callbacks, the DNS   *)
(* utilities and the settle timer).  Every collaborator call is a promise: *)
(* the workflow issues it, is suspended at the await, and an action of the *)
(* model resolves or rejects it and runs the continuation up to the next   *)
(* await.  Branches of a Promise.all keep running after the group has      *)
(* rejected, as they do in the runtime.                                    *)
(***************************************************************************)
EXTENDS Integers, Sequences, FiniteSets, TLC

\* Largest number of domains (= authorizations) of one order.
MaxAuth == 2

VARIABLES
  cfg,               \* RequestCertificatesConfig: which callbacks are supplied, how many domains
  acmeOrder,         \* the order returned by createOrder (its authorizations)
  pc,                \* the await at which requestCertificate is suspended
  challengeRequired, \* the local variable of that name
  flow,              \* the branch of the challenge phase that was entered
  branch,            \* per authorization: the state of its promises in each fan-out
  ret,               \* the state of every sequential (non fan-out) promise
  calls,             \* number of calls issued to each collaborator operation
  callbackArg,       \* the list handed to updateDnsRecords / updateHttpResources
  certKeyPair,       \* const certKeyPair
  certificate,       \* const certificate
  timeouts,          \* the timeout or delay passed to each poll and to the settle timer
  result,            \* state of the promise returned by requestCertificate
  returned,          \* the value it resolved with
  error              \* the error it rejected with

\* The key utilities (src/src/CryptoKeyUtils/importKeyPairFromPemPrivateKey.ts,
\* src/src/utils/crypto.ts): one call of generateKeyPair or of
\* importKeyPairFromPemPrivateKey against the platform's crypto.subtle.
VARIABLES
  keyIn,             \* the function called and its arguments
  keyPc,             \* the await at which that call is suspended
  keyCalls,          \* the crypto.subtle calls made, with their arguments
  privateKey,        \* const privateKey of importKeyPairFromPemPrivateKey
  jwkPublic,         \* const jwkPublic of derivePublicKey
  keyResult          \* state, value and error of the returned promise

keyVars == <<keyIn, keyPc, keyCalls, privateKey, jwkPublic, keyResult>>

workflowVars == <<cfg, acmeOrder, pc, challengeRequired, flow, branch, ret, calls,
                  callbackArg, certKeyPair, certificate, timeouts, result,
                  returned, error>>

vars == <<workflowVars, keyVars>>

----------------------------------------------------------------------------
\* Values

\* An authorization offers a dns-01 challenge, an http-01 challenge, both or neither.
Authorizations == [dns01 : BOOLEAN, http01 : BOOLEAN]

\* The orders createOrder can return for n domains: one authorization per domain.
Orders(n) == [authorizations : [1..n -> Authorizations]]

NoOrder == [authorizations |-> <<>>]

\* An optional number of milliseconds: <<>> when the field is not supplied.
TimeoutInputs == {<<>>, <<100>>}

DelayInputs == {<<>>, <<0>>}

Configs == [updateDnsRecords : BOOLEAN, updateHttpResources : BOOLEAN,
            domains : 1..MaxAuth, timeout : TimeoutInputs,
            delayAfterDnsRecordsConfirmed : DelayInputs]

\* pollStatus({ pollUntil: "ready", timeout: 1 })
ProbeTimeout == 1

\* timeout = 30000
DefaultTimeout == 30000

\* delayAfterDnsRecordsConfirmed = 5000
DefaultDelay == 5000

\* The destructuring defaults of config.
Timeout(c) == IF c.timeout = <<>> THEN DefaultTimeout ELSE c.timeout[1]

Delay(c) ==
  IF c.delayAfterDnsRecordsConfirmed = <<>> THEN DefaultDelay
  ELSE c.delayAfterDnsRecordsConfirmed[1]

\* The polls and the timer that take a number of milliseconds.
TimedCalls == {"probe", "settle", "awaitReady", "awaitValid"}

\* Mutant: the probe is given the configured timeout like every other poll.
StageTimeoutFromConfig(s, c) == IF s = "settle" THEN Delay(c) ELSE Timeout(c)

\* The milliseconds passed at each call site.
StageTimeout(s, c) ==
  CASE s = "probe"  -> ProbeTimeout
    [] s = "settle" -> Delay(c)
    [] OTHER        -> Timeout(c)

KeyPairs == {"keyPairA", "keyPairB"}

Certificates == {"pemA", "pemB"}

\* Collaborator operations whose calls are counted.
CallKinds == {"createOrder", "pollReady", "pollValid", "findDns01Challenge",
              "findHttp01Challenge", "getDnsRecordAnswer", "getHttpResource",
              "updateDnsRecords", "updateHttpResources",
              "findAuthoritativeNameServerIps", "pollDnsTxtRecord", "setTimeout",
              "submit", "finalize", "getCertificate"}

\* The sequential awaits of requestCertificate.
MainCalls == {"createOrder", "probe", "callback", "settle", "awaitReady",
              "finalize", "awaitValid", "getCertificate"}

\* The awaited Promise.all groups.
FanOuts == {"fetch", "confirm", "submit"}

\* How a collaborator's promise can settle.
PollOutcomes == {"ok", "timeout", "error"}

CallOutcomes == {"ok", "error"}

NoError == [stage |-> "none", auth |-> 0, kind |-> "none"]

NoValue == [certificate |-> "none", certKeyPair |-> "none", acmeOrder |-> NoOrder]

NoAnswer == [type |-> "none", auth |-> 0]

NoChallenge == [type |-> "none", auth |-> 0]

\* The challenge of type f ("dns" or "http") that authorization i offers.
Challenge(f, i) == [type |-> f, auth |-> i]

\* The DnsTxtRecord / HttpResource that the challenge of authorization i expects.
Answer(f, i) == [type |-> f, auth |-> i]

\* Per authorization: the challenge found for it, the state of each of its
\* promises, the answer its fetch returned and its place in the order in
\* which the fetches settled, the challenge submit() was called on, and how
\* often each call was issued for it.
IdleBranch == [challenge |-> NoChallenge, fetch |-> "idle", answer |-> NoAnswer,
               rank |-> 0, ns |-> "idle", dnsPoll |-> "idle",
               pollTimeout |-> <<>>, submit |-> "idle", submitted |-> NoChallenge,
               fetchCalls |-> 0, nsCalls |-> 0, pollCalls |-> 0, submitCalls |-> 0]

Inc(c, kind, k) == [c EXCEPT ![kind] = @ + k]

NAuth == Len(acmeOrder.authorizations)

----------------------------------------------------------------------------
\* Values of the key utilities

\* Largest number of distinct key materials the provider hands out.
MaxKey == 2

\* type KeyPairAlgorithm = "ec" | "rsa" | "rsa-4096"
KeyPairAlgorithms == {"ec", "rsa", "rsa-4096"}

\* The optional keyPairAlgorithm argument: a KeyPairAlgorithm, or left out.
AlgorithmArgs == KeyPairAlgorithms \cup {"undefined"}

\* keyPairAlgorithm: KeyPairAlgorithm = "ec"
AlgorithmOrDefault(a) == IF a = "undefined" THEN "ec" ELSE a

NoParams == [name |-> "none", namedCurve |-> "none", modulusLength |-> 0,
             publicExponent |-> <<>>, hash |-> "none"]

\* getAlgorithmProperties: the parameters of each KeyPairAlgorithm; fields
\* that a parameter object does not have are "none", 0 or <<>>, and
\* publicExponent is the big-endian byte array new Uint8Array([1, 0, 1]).
GetAlgorithmProperties(keyPairAlgorithm) ==
  CASE keyPairAlgorithm = "ec" ->
         [name |-> "ECDSA", namedCurve |-> "P-256", modulusLength |-> 0,
          publicExponent |-> <<>>, hash |-> "none"]
    [] keyPairAlgorithm = "rsa" ->
         [name |-> "RSASSA-PKCS1-v1_5", namedCurve |-> "none", modulusLength |-> 2048,
          publicExponent |-> <<1, 0, 1>>, hash |-> "SHA-256"]
    [] keyPairAlgorithm = "rsa-4096" ->
         [name |-> "RSASSA-PKCS1-v1_5", namedCurve |-> "none", modulusLength |-> 4096,
          publicExponent |-> <<1, 0, 1>>, hash |-> "SHA-256"]

\* { name: "ECDSA", namedCurve: "P-256" }, the literal of utils/crypto.ts
EcdsaP256 ==
  [name |-> "ECDSA", namedCurve |-> "P-256", modulusLength |-> 0,
   publicExponent |-> <<>>, hash |-> "none"]

\* The key type (JWK kty) of a parameter object and of a KeyPairAlgorithm.
Kty(params) == IF params.name = "ECDSA" THEN "EC" ELSE "RSA"

\* The key type (JWK kty) of the private key a PEM text of that kind holds.
KeyFamily(keyPairAlgorithm) == IF keyPairAlgorithm = "ec" THEN "EC" ELSE "RSA"

\* The members of the JWK export of a private key of that key type.
PrivateMembers(kty) ==
  IF kty = "EC" THEN {"crv", "x", "y", "d"}
  ELSE {"n", "e", "d", "p", "q", "dp", "dq", "qi"}

\* What the private key held by a PEM text of that kind is: its curve, or its
\* modulus length and public exponent.
PemKey(kind) ==
  CASE kind = "ec" -> [namedCurve |-> "P-256", modulusLength |-> 0,
                       publicExponent |-> <<>>]
    [] kind = "rsa" -> [namedCurve |-> "none", modulusLength |-> 2048,
                        publicExponent |-> <<1, 0, 1>>]
    [] kind = "rsa-4096" -> [namedCurve |-> "none", modulusLength |-> 4096,
                             publicExponent |-> <<1, 0, 1>>]

\* CryptoKey.algorithm of a key imported under params: the name and the hash
\* are those of params, the curve, modulus length and public exponent are
\* those of the key imported (attrs), whatever params names.
ImportedAlgorithm(params, attrs) ==
  [name |-> params.name, namedCurve |-> attrs.namedCurve,
   modulusLength |-> attrs.modulusLength,
   publicExponent |-> attrs.publicExponent, hash |-> params.hash]

\* A CryptoKey: its type, its algorithm attribute, its usages and the key
\* material it holds.
NoKey == [type |-> "none", algorithm |-> NoParams, usages |-> {}, material |-> 0]

NoKeyPair == [privateKey |-> NoKey, publicKey |-> NoKey]

\* A JSON Web Key: key type, the members present, key_ops, and the key the
\* members encode: its curve or modulus length and exponent, and its material.
NoJwk == [kty |-> "none", members |-> {}, key_ops |-> {}, namedCurve |-> "none",
          modulusLength |-> 0, publicExponent |-> <<>>, material |-> 0]

\* The PEM texts given to the importer: without any PEM object, or holding
\* the PKCS8 encoding of a private key of some algorithm.
NoPem == [object |-> FALSE, algorithm |-> "none", material |-> 0]

PemTexts ==
  {NoPem} \cup [object : {TRUE}, algorithm : KeyPairAlgorithms, material : 1..MaxKey]

NoKeyCall == [fn |-> "none", keyPairAlgorithm |-> "undefined", pem |-> NoPem]

KeyPending == [status |-> "pending", keyPair |-> NoKeyPair, error |-> "none"]

----------------------------------------------------------------------------
\* The decisions requestCertificate takes

\* Mutant: the assignment challengeRequired = false is lost.
ChallengeAlwaysRequired(outcome) == TRUE

\* let challengeRequired = true; try { await pollStatus(...); challengeRequired = false } catch(e) {}
ChallengeRequiredAfterProbe(outcome) == outcome # "ok"

\* Mutant: the two branches of the if are swapped, HTTP is preferred.
SelectFlowHttpFirst(c) ==
  IF c.updateHttpResources THEN "http"
  ELSE IF c.updateDnsRecords THEN "dns"
  ELSE "none"

\* if (updateDnsRecords) {...} else if (updateHttpResources) {...}
SelectFlow(c) ==
  IF c.updateDnsRecords THEN "dns"
  ELSE IF c.updateHttpResources THEN "http"
  ELSE "none"

\* authorization.findDns01Challenge() / findHttp01Challenge() !== undefined
HasChallenge(a, f) == IF f = "dns" THEN a.dns01 ELSE a.http01

\* Mutant: an authorization without the challenge is not detected.
NoneMissing(auths, f) == 0

\* authorizations.map(...) throws at the first authorization without a
\* challenge of the flow's type: its index, or 0 when every one has it.
FirstMissing(auths, f) ==
  LET missing == {i \in 1..Len(auths) : ~HasChallenge(auths[i], f)}
  IN IF missing = {} THEN 0
     ELSE CHOOSE i \in missing : \A j \in missing : i <= j

\* Number of find...Challenge() calls the map makes before it returns or throws.
Lookups(auths, f) ==
  IF FirstMissing(auths, f) = 0 THEN Len(auths) ELSE FirstMissing(auths, f)

FindKind(f) == IF f = "dns" THEN "findDns01Challenge" ELSE "findHttp01Challenge"

FetchKind(f) == IF f = "dns" THEN "getDnsRecordAnswer" ELSE "getHttpResource"

CallbackKind(f) == IF f = "dns" THEN "updateDnsRecords" ELSE "updateHttpResources"

\* Mutant: the settle delay is left out, submission follows confirmation.
StageAfterNoSettle(f, stage) ==
  CASE stage = "fetch"      -> "callback"
    [] stage = "callback"   -> IF f = "dns" THEN "confirm" ELSE "submit"
    [] stage = "confirm"    -> "submit"
    [] stage = "settle"     -> "submit"
    [] stage = "submit"     -> "awaitReady"
    [] stage = "awaitReady" -> "finalize"
    [] stage = "finalize"   -> "awaitValid"
    [] stage = "awaitValid" -> "getCertificate"

\* Mutant: the HTTP-01 branch is a copy of the DNS-01 branch, confirmation included.
StageAfterHttpConfirms(f, stage) ==
  CASE stage = "fetch"      -> "callback"
    [] stage = "callback"   -> "confirm"
    [] stage = "confirm"    -> "settle"
    [] stage = "settle"     -> "submit"
    [] stage = "submit"     -> "awaitReady"
    [] stage = "awaitReady" -> "finalize"
    [] stage = "finalize"   -> "awaitValid"
    [] stage = "awaitValid" -> "getCertificate"

\* The await that follows a completed stage, in program order.
StageAfter(f, stage) ==
  CASE stage = "fetch"      -> "callback"
    [] stage = "callback"   -> IF f = "dns" THEN "confirm" ELSE "submit"
    [] stage = "confirm"    -> "settle"
    [] stage = "settle"     -> "submit"
    [] stage = "submit"     -> "awaitReady"
    [] stage = "awaitReady" -> "finalize"
    [] stage = "finalize"   -> "awaitValid"
    [] stage = "awaitValid" -> "getCertificate"

\* Mutant: the await-readiness poll is wrapped in the probe's catch-all.
RejectsUnlessReadyPoll(stage, out) == stage # "awaitReady" /\ out # "ok"

\* `await p` throws when p rejects (with a timeout or any other error).
Rejects(stage, out) == out # "ok"

\* Mutant: Promise.allSettled, which waits for every promise and never rejects.
PromiseAllSettled(ps) ==
  IF \A i \in DOMAIN ps : ps[i] \in {"ok", "error", "timeout"} THEN "fulfilled"
  ELSE "pending"

\* Mutant: a rejection is swallowed, the group stays pending.
PromiseAllNeverRejects(ps) ==
  IF \A i \in DOMAIN ps : ps[i] = "ok" THEN "fulfilled" ELSE "pending"

\* Promise.all over the promise states ps: it rejects as soon as one promise
\* rejects, fulfils when every one has fulfilled, and is pending otherwise.
PromiseAll(ps) ==
  IF \E i \in DOMAIN ps : ps[i] \in {"error", "timeout"} THEN "rejected"
  ELSE IF \A i \in DOMAIN ps : ps[i] = "ok" THEN "fulfilled"
  ELSE "pending"

\* Mutant: the branch catches the propagation poll's timeout.
ConfirmBranchCatchesTimeout(x) ==
  IF x.ns = "error" THEN "error"
  ELSE IF x.dnsPoll \in {"ok", "timeout"} THEN "ok"
  ELSE "pending"

\* The promise of one branch of the DNS confirmation fan-out
\*   async (expectedRecord) => { await pollDnsTxtRecord(name, { nameServerIps: await find...(name) }) }
\* given the state x of that record's calls.
ConfirmBranch(x) ==
  IF x.ns = "error" THEN "error"
  ELSE IF x.dnsPoll \in {"ok", "timeout"} THEN x.dnsPoll
  ELSE "pending"

\* The promises a fan-out stage awaits, in authorization order.
Promises(stage, b) ==
  CASE stage = "fetch"   -> [i \in DOMAIN b |-> b[i].fetch]
    [] stage = "confirm" -> [i \in DOMAIN b |-> ConfirmBranch(b[i])]
    [] stage = "submit"  -> [i \in DOMAIN b |-> b[i].submit]

\* const dns01Challenges / http01Challenges = acmeOrder.authorizations.map(...)
FoundChallenges(b, f) == [i \in DOMAIN b |-> [b[i] EXCEPT !.challenge = Challenge(f, i)]]

\* Mutant: the results are collected in the order in which the fetches settle.
ExpectedRecordsAsSettled(b) ==
  [k \in DOMAIN b |-> b[CHOOSE i \in DOMAIN b : b[i].rank = k].answer]

\* The array Promise.all resolves with: the i-th result is the i-th promise's.
ExpectedRecords(b) == [i \in DOMAIN b |-> b[i].answer]

\* The calls a stage issues synchronously when it is entered.
IssueBranches(s, b) ==
  CASE s = "fetch"   -> [i \in DOMAIN b |->
                           [b[i] EXCEPT !.fetch = "pending", !.fetchCalls = @ + 1]]
    [] s = "confirm" -> [i \in DOMAIN b |->
                           [b[i] EXCEPT !.ns = "pending", !.nsCalls = @ + 1]]
    [] s = "submit"  -> [i \in DOMAIN b |->
                           [b[i] EXCEPT !.submit = "pending", !.submitCalls = @ + 1,
                                        !.submitted = b[i].challenge]]
    [] OTHER         -> b

IssueCalls(s, f, n, c) ==
  CASE s = "fetch"          -> Inc(c, FetchKind(f), n)
    [] s = "callback"       -> Inc(c, CallbackKind(f), 1)
    [] s = "confirm"        -> Inc(c, "findAuthoritativeNameServerIps", n)
    [] s = "settle"         -> Inc(c, "setTimeout", 1)
    [] s = "submit"         -> Inc(c, "submit", n)
    [] s = "probe"          -> Inc(c, "pollReady", 1)
    [] s = "awaitReady"     -> Inc(c, "pollReady", 1)
    [] s = "finalize"       -> Inc(c, "finalize", 1)
    [] s = "awaitValid"     -> Inc(c, "pollValid", 1)
    [] s = "getCertificate" -> Inc(c, "getCertificate", 1)

----------------------------------------------------------------------------
\* Control transfer of the async function

\* Run on to the await of stage s, from branch state b, promise state r, counters c.
Goto(s, f, b, r, c) ==
  /\ pc' = s
  /\ branch' = IssueBranches(s, b)
  /\ ret' = IF s \in MainCalls THEN [r EXCEPT ![s] = "pending"] ELSE r
  /\ calls' = IssueCalls(s, f, Len(b), c)
  /\ callbackArg' = IF s = "callback" THEN ExpectedRecords(b) ELSE callbackArg
  /\ timeouts' = IF s \in TimedCalls
                 THEN [timeouts EXCEPT ![s] = <<StageTimeout(s, cfg)>>]
                 ELSE timeouts
  /\ UNCHANGED <<result, returned, error, keyVars>>

\* An exception leaves requestCertificate: the returned promise rejects with e.
Throw(e, b, r, c) ==
  /\ pc' = "failed"
  /\ result' = "rejected"
  /\ error' = e
  /\ branch' = b
  /\ ret' = r
  /\ calls' = c
  /\ UNCHANGED <<callbackArg, timeouts, returned, keyVars>>

\* A promise of a fan-out settled and requestCertificate does not move.
Stay(b, c) ==
  /\ branch' = b
  /\ calls' = c
  /\ UNCHANGED <<pc, ret, callbackArg, timeouts, result, returned, error, keyVars>>

----------------------------------------------------------------------------
\* No key utility is called during requestCertificate.
KeysIdle ==
  /\ keyIn = NoKeyCall
  /\ keyPc = "idle"
  /\ keyCalls = <<>>
  /\ privateKey = NoKey
  /\ jwkPublic = NoJwk
  /\ keyResult = KeyPending

\* requestCertificate has not been invoked.
WorkflowIdle ==
  /\ acmeOrder = NoOrder
  /\ pc = "start"
  /\ challengeRequired = TRUE
  /\ flow = "none"
  /\ branch = <<>>
  /\ ret = [m \in MainCalls |-> "idle"]
  /\ calls = [k \in CallKinds |-> 0]
  /\ callbackArg = <<>>
  /\ timeouts = [s \in TimedCalls |-> <<>>]
  /\ certKeyPair = "none"
  /\ certificate = "none"
  /\ result = "pending"
  /\ returned = NoValue
  /\ error = NoError

Init ==
  /\ KeysIdle
  /\ cfg \in Configs
  /\ WorkflowIdle

\* requestCertificate(config) is invoked: acmeAccount.createOrder({ domains }).
RequestCertificate ==
  /\ pc = "start"
  /\ pc' = "createOrder"
  /\ ret' = [ret EXCEPT !["createOrder"] = "pending"]
  /\ calls' = Inc(calls, "createOrder", 1)
  /\ UNCHANGED <<cfg, acmeOrder, challengeRequired, flow, branch, callbackArg,
                 certKeyPair, certificate, timeouts, result, returned, error,
                 keyVars>>

\* createOrder settles; on success the readiness probe is issued.
CreateOrderReturns ==
  /\ pc = "createOrder"
  /\ \/ \E o \in Orders(cfg.domains) :
          /\ acmeOrder' = o
          /\ Goto("probe", flow, [i \in 1..cfg.domains |-> IdleBranch],
                  [ret EXCEPT !["createOrder"] = "ok"], calls)
     \/ /\ Throw([stage |-> "createOrder", auth |-> 0, kind |-> "error"],
                  branch, [ret EXCEPT !["createOrder"] = "error"], calls)
        /\ UNCHANGED acmeOrder
  /\ UNCHANGED <<cfg, challengeRequired, flow, certKeyPair, certificate>>

\* The readiness probe settles.  Whatever it throws is caught; the challenge
\* phase is entered up to its first await, or the order is finalized.
ProbeReturns ==
  /\ pc = "probe"
  /\ \E out \in PollOutcomes :
       LET r     == [ret EXCEPT !["probe"] = out]
           f     == SelectFlow(cfg)
           auths == acmeOrder.authorizations
           c     == Inc(calls, FindKind(f), Lookups(auths, f))
       IN /\ challengeRequired' = ChallengeRequiredAfterProbe(out)
          /\ IF ~ChallengeRequiredAfterProbe(out)
             THEN /\ flow' = "none"
                  /\ Goto("finalize", "none", branch, r, calls)
             ELSE /\ flow' = f
                  /\ IF f = "none"
                     THEN Goto("awaitReady", f, branch, r, calls)
                     ELSE IF FirstMissing(auths, f) # 0
                     THEN Throw([stage |-> FindKind(f),
                                 auth |-> FirstMissing(auths, f),
                                 kind |-> "config"], branch, r, c)
                     ELSE Goto("fetch", f, FoundChallenges(branch, f), r, c)
  /\ UNCHANGED <<cfg, acmeOrder, certKeyPair, certificate>>

\* Mutant: a rejected group is retried, its calls are issued again.
JoinRetries(stage, e, b, c) ==
  IF pc # stage THEN Stay(b, c)
  ELSE IF PromiseAll(Promises(stage, b)) = "rejected" THEN Goto(stage, flow, b, ret, c)
  ELSE IF PromiseAll(Promises(stage, b)) = "fulfilled"
  THEN Goto(StageAfter(flow, stage), flow, b, ret, c)
  ELSE Stay(b, c)

\* Mutant: a rejection that arrives after the group has rejected is reported too.
JoinReportsLast(stage, e, b, c) ==
  IF pc # stage
  THEN IF e.kind # "ok" /\ result = "rejected" THEN Throw(e, b, ret, c) ELSE Stay(b, c)
  ELSE IF PromiseAll(Promises(stage, b)) = "rejected" THEN Throw(e, b, ret, c)
  ELSE IF PromiseAll(Promises(stage, b)) = "fulfilled"
  THEN Goto(StageAfter(flow, stage), flow, b, ret, c)
  ELSE Stay(b, c)

\* A promise of a fan-out settled, giving branch state b; e is its error if
\* it rejected.  While requestCertificate awaits the group, the first
\* rejection is thrown and the fulfilment of all lets it run on; once it has
\* left the await, nothing listens any more.
Join(stage, e, b, c) ==
  IF pc # stage THEN Stay(b, c)
  ELSE IF PromiseAll(Promises(stage, b)) = "rejected" THEN Throw(e, b, ret, c)
  ELSE IF PromiseAll(Promises(stage, b)) = "fulfilled"
  THEN Goto(StageAfter(flow, stage), flow, b, ret, c)
  ELSE Stay(b, c)

\* getDnsRecordAnswer() / getHttpResource() of authorization i settles.
FetchReturns(i) ==
  /\ branch[i].fetch = "pending"
  /\ \E out \in CallOutcomes :
       Join("fetch",
            [stage |-> FetchKind(flow), auth |-> i, kind |-> out],
            [branch EXCEPT ![i].fetch = out,
                           ![i].rank = 1 + Cardinality({j \in DOMAIN branch :
                                                          branch[j].rank > 0}),
                           ![i].answer = IF out = "ok"
                                         THEN Answer(branch[i].challenge.type,
                                                     branch[i].challenge.auth)
                                         ELSE @],
            calls)
  /\ UNCHANGED <<cfg, acmeOrder, challengeRequired, flow, certKeyPair, certificate>>

\* updateDnsRecords(expectedRecords) / updateHttpResources(expectedRecords) settles.
CallbackReturns ==
  /\ pc = "callback"
  /\ \E out \in CallOutcomes :
       LET r == [ret EXCEPT !["callback"] = out]
       IN IF ~Rejects("callback", out)
          THEN Goto(StageAfter(flow, "callback"), flow, branch, r, calls)
          ELSE Throw([stage |-> CallbackKind(flow), auth |-> 0, kind |-> out],
                     branch, r, calls)
  /\ UNCHANGED <<cfg, acmeOrder, challengeRequired, flow, certKeyPair, certificate>>

\* findAuthoritativeNameServerIps(expectedRecord.name) of record i settles; on
\* success the branch goes on to call pollDnsTxtRecord.
FindNsReturns(i) ==
  /\ branch[i].ns = "pending"
  /\ \/ Stay([branch EXCEPT ![i].ns = "ok", ![i].dnsPoll = "pending",
                             ![i].pollTimeout = <<StageTimeout("dnsPoll", cfg)>>,
                             ![i].pollCalls = @ + 1],
              Inc(calls, "pollDnsTxtRecord", 1))
     \/ Join("confirm",
             [stage |-> "findAuthoritativeNameServerIps", auth |-> i, kind |-> "error"],
             [branch EXCEPT ![i].ns = "error"], calls)
  /\ UNCHANGED <<cfg, acmeOrder, challengeRequired, flow, certKeyPair, certificate>>

\* pollDnsTxtRecord of record i settles: the record matched, or the poll timed out.
DnsPollReturns(i) ==
  /\ branch[i].dnsPoll = "pending"
  /\ \E out \in {"ok", "timeout"} :
       Join("confirm",
            [stage |-> "pollDnsTxtRecord", auth |-> i, kind |-> out],
            [branch EXCEPT ![i].dnsPoll = out], calls)
  /\ UNCHANGED <<cfg, acmeOrder, challengeRequired, flow, certKeyPair, certificate>>

\* The settle timer (setTimeout(res, delayAfterDnsRecordsConfirmed)) fires.
SettleElapsed ==
  /\ pc = "settle"
  /\ Goto(StageAfter(flow, "settle"), flow, branch,
          [ret EXCEPT !["settle"] = "ok"], calls)
  /\ UNCHANGED <<cfg, acmeOrder, challengeRequired, flow, certKeyPair, certificate>>

\* challenge.submit() of authorization i settles.
SubmitReturns(i) ==
  /\ branch[i].submit = "pending"
  /\ \E out \in CallOutcomes :
       Join("submit",
            [stage |-> "submit", auth |-> i, kind |-> out],
            [branch EXCEPT ![i].submit = out], calls)
  /\ UNCHANGED <<cfg, acmeOrder, challengeRequired, flow, certKeyPair, certificate>>

\* pollStatus({ pollUntil: "ready", timeout }) settles.
AwaitReadyReturns ==
  /\ pc = "awaitReady"
  /\ \E out \in PollOutcomes :
       LET r == [ret EXCEPT !["awaitReady"] = out]
       IN IF ~Rejects("awaitReady", out)
          THEN Goto(StageAfter(flow, "awaitReady"), flow, branch, r, calls)
          ELSE Throw([stage |-> "pollReady", auth |-> 0, kind |-> out],
                     branch, r, calls)
  /\ UNCHANGED <<cfg, acmeOrder, challengeRequired, flow, certKeyPair, certificate>>

\* acmeOrder.finalize() settles, with the certificate's key pair.
FinalizeReturns ==
  /\ pc = "finalize"
  /\ \/ \E kp \in KeyPairs :
          /\ certKeyPair' = kp
          /\ Goto(StageAfter(flow, "finalize"), flow, branch,
                  [ret EXCEPT !["finalize"] = "ok"], calls)
     \/ /\ Throw([stage |-> "finalize", auth |-> 0, kind |-> "error"],
                  branch, [ret EXCEPT !["finalize"] = "error"], calls)
        /\ UNCHANGED certKeyPair
  /\ UNCHANGED <<cfg, acmeOrder, challengeRequired, flow, certificate>>

\* pollStatus({ pollUntil: "valid", timeout }) settles.
AwaitValidReturns ==
  /\ pc = "awaitValid"
  /\ \E out \in PollOutcomes :
       LET r == [ret EXCEPT !["awaitValid"] = out]
       IN IF ~Rejects("awaitValid", out)
          THEN Goto(StageAfter(flow, "awaitValid"), flow, branch, r, calls)
          ELSE Throw([stage |-> "pollValid", auth |-> 0, kind |-> out],
                     branch, r, calls)
  /\ UNCHANGED <<cfg, acmeOrder, challengeRequired, flow, certKeyPair, certificate>>

\* Mutant: the key pair of finalize is not put into the result.
ReturnValueWithoutKeyPair(pem, kp, o) ==
  [certificate |-> pem, certKeyPair |-> "none", acmeOrder |-> o]

\* return { certificate, certKeyPair, acmeOrder }
ReturnValue(pem, kp, o) ==
  [certificate |-> pem, certKeyPair |-> kp, acmeOrder |-> o]

\* acmeOrder.getCertificate() settles; on success requestCertificate returns.
GetCertificateReturns ==
  /\ pc = "getCertificate"
  /\ \/ \E pem \in Certificates :
          /\ certificate' = pem
          /\ pc' = "done"
          /\ result' = "resolved"
          /\ returned' = ReturnValue(pem, certKeyPair, acmeOrder)
          /\ ret' = [ret EXCEPT !["getCertificate"] = "ok"]
          /\ UNCHANGED <<branch, calls, callbackArg, timeouts, error, keyVars>>
     \/ /\ Throw([stage |-> "getCertificate", auth |-> 0, kind |-> "error"],
                  branch, [ret EXCEPT !["getCertificate"] = "error"], calls)
        /\ UNCHANGED certificate
  /\ UNCHANGED <<cfg, acmeOrder, challengeRequired, flow, certKeyPair>>

Next ==
  \/ RequestCertificate
  \/ CreateOrderReturns
  \/ ProbeReturns
  \/ \E i \in DOMAIN branch : FetchReturns(i)
  \/ CallbackReturns
  \/ \E i \in DOMAIN branch : FindNsReturns(i)
  \/ \E i \in DOMAIN branch : DnsPollReturns(i)
  \/ SettleElapsed
  \/ \E i \in DOMAIN branch : SubmitReturns(i)
  \/ AwaitReadyReturns
  \/ FinalizeReturns
  \/ AwaitValidReturns
  \/ GetCertificateReturns

Spec == Init /\ [][Next]_vars

\* Every issued collaborator call and the settle timer eventually settle, and
\* the event loop then runs the continuation: while some promise is
\* outstanding, a step is eventually taken.
FairSpec == Spec /\ WF_vars(Next)

----------------------------------------------------------------------------
\* The key utilities

\* One call of crypto.subtle: the operation, the key format, the parameter
\* object, the extractable flag and the usages passed, and how it settled.
SubtleCall(op, format, params, usages) ==
  [op |-> op, format |-> format, params |-> params, extractable |-> TRUE,
   usages |-> usages, outcome |-> "pending"]

\* The last call of cs: the one the suspended function awaits.
LastCall(cs) == cs[Len(cs)]

Settle(cs, outcome) == [cs EXCEPT ![Len(cs)].outcome = outcome]

\* extractFirstPemObject(pemPrivateKey): the first PEM object of the text as
\* <<object>>, or <<>> where it throws because the text holds none.
ExtractFirstPemObject(pem) ==
  IF pem.object
  THEN <<[algorithm |-> pem.algorithm, material |-> pem.material]>>
  ELSE <<>>

\* The CryptoKeyPair crypto.subtle.generateKey resolves with: the private
\* key takes the sign usage, the public key the verify usage.
GeneratedKeyPair(call, m) ==
  [privateKey |-> [type |-> "private", algorithm |-> call.params,
                   usages |-> call.usages \cap {"sign"}, material |-> m],
   publicKey |-> [type |-> "public", algorithm |-> call.params,
                  usages |-> call.usages \cap {"verify"}, material |-> m]]

\* crypto.subtle.importKey("pkcs8", ...) accepts the data when the key it
\* encodes is of the key type the parameter object names and, for an EC key,
\* on the curve it names; the modulus length it names is not compared.
Pkcs8Accepted(data, call) ==
  /\ KeyFamily(data.algorithm) = Kty(call.params)
  /\ Kty(call.params) = "EC" =>
       PemKey(data.algorithm).namedCurve = call.params.namedCurve

\* crypto.subtle.exportKey("jwk", key) of a private key.
ExportedJwk(key) ==
  [kty |-> Kty(key.algorithm), members |-> PrivateMembers(Kty(key.algorithm)),
   key_ops |-> key.usages, namedCurve |-> key.algorithm.namedCurve,
   modulusLength |-> key.algorithm.modulusLength,
   publicExponent |-> key.algorithm.publicExponent, material |-> key.material]

\* const { d, ...jwkPublic } = { ...exported, key_ops: ["verify"] }
JwkPublic(exported) ==
  [exported EXCEPT !.key_ops = {"verify"}, !.members = @ \ {"d"}]

\* A JWK with the member d is a private key, one without it a public key.
JwkType(jwk) == IF "d" \in jwk.members THEN "private" ELSE "public"

\* The usages asked for fit the type of the JWK: sign for a private key,
\* verify for a public key.
JwkUsagesFit(jwk, call) ==
  call.usages \subseteq (IF JwkType(jwk) = "private" THEN {"sign"} ELSE {"verify"})

\* crypto.subtle.importKey("jwk", ...) accepts the JWK when the usages fit
\* its type, its kty (and curve) is the one the parameter object names and
\* the usages are among its key_ops; the modulus length is not compared.
JwkAccepted(jwk, call) ==
  /\ JwkUsagesFit(jwk, call)
  /\ jwk.kty = Kty(call.params)
  /\ jwk.kty = "EC" => jwk.namedCurve = call.params.namedCurve
  /\ call.usages \subseteq jwk.key_ops

\* The error crypto.subtle.importKey("jwk", ...) rejects with: usages that do
\* not fit the type are a SyntaxError, other mismatches of the JWK a
\* DataError, a failure while importing an accepted JWK an OperationError.
JwkError(jwk, call) ==
  IF ~JwkUsagesFit(jwk, call) THEN "SyntaxError"
  ELSE IF ~JwkAccepted(jwk, call) THEN "DataError"
  ELSE "OperationError"

KeyResolved(keyPair) == [status |-> "resolved", keyPair |-> keyPair, error |-> "none"]

KeyRejected(e) == [status |-> "rejected", keyPair |-> NoKeyPair, error |-> e]

\* Mutant: a failed derivation resolves with the private key alone.
DerivationFailsPartial(priv, e) ==
  KeyResolved([privateKey |-> priv, publicKey |-> NoKey])

\* return { privateKey, publicKey: await derivePublicKey(...) } where the
\* awaited promise rejects with e: the object is never built.
DerivationFails(priv, e) == KeyRejected(e)

\* generateKeyPair(keyPairAlgorithm = "ec") of the CryptoKeyUtils sources.
GenerateKeyPair(a) ==
  /\ keyPc = "idle"
  /\ keyIn' = [fn |-> "generateKeyPair", keyPairAlgorithm |-> a, pem |-> NoPem]
  /\ keyCalls' = Append(keyCalls,
                        SubtleCall("generateKey", "none",
                                   GetAlgorithmProperties(AlgorithmOrDefault(a)),
                                   {"sign", "verify"}))
  /\ keyPc' = "generateKey"
  /\ UNCHANGED <<privateKey, jwkPublic, keyResult, workflowVars>>

\* generateKeyPair() of src/utils/crypto.ts, which declares no parameter:
\* an argument passed to it is not read.
UtilsGenerateKeyPair(a) ==
  /\ keyPc = "idle"
  /\ keyIn' = [fn |-> "utils.generateKeyPair", keyPairAlgorithm |-> a, pem |-> NoPem]
  /\ keyCalls' = Append(keyCalls,
                        SubtleCall("generateKey", "none", EcdsaP256,
                                   {"sign", "verify"}))
  /\ keyPc' = "generateKey"
  /\ UNCHANGED <<privateKey, jwkPublic, keyResult, workflowVars>>

\* crypto.subtle.generateKey settles: return await ...
GenerateKeyReturns ==
  /\ keyPc = "generateKey"
  /\ keyPc' = "done"
  /\ \/ /\ \E m \in 1..MaxKey :
             keyResult' = KeyResolved(GeneratedKeyPair(LastCall(keyCalls), m))
        /\ keyCalls' = Settle(keyCalls, "resolved")
     \/ /\ keyResult' = KeyRejected("OperationError")
        /\ keyCalls' = Settle(keyCalls, "rejected")
  /\ UNCHANGED <<keyIn, privateKey, jwkPublic, workflowVars>>

\* importKeyPairFromPemPrivateKey(pemPrivateKey, keyPairAlgorithm = "ec"):
\* the arguments of crypto.subtle.importKey("pkcs8", ...) are evaluated,
\* extractFirstPemObject among them, and the call is issued.
ImportKeyPairFromPemPrivateKey(pem, a) ==
  /\ keyPc = "idle"
  /\ keyIn' = [fn |-> "importKeyPairFromPemPrivateKey", keyPairAlgorithm |-> a,
               pem |-> pem]
  /\ IF ExtractFirstPemObject(pem) = <<>>
     THEN /\ keyResult' = KeyRejected("parse error")
          /\ keyPc' = "done"
          /\ UNCHANGED keyCalls
     ELSE /\ keyCalls' = Append(keyCalls,
                                SubtleCall("importKey", "pkcs8",
                                           GetAlgorithmProperties(AlgorithmOrDefault(a)),
                                           {"sign"}))
          /\ keyPc' = "importPrivate"
          /\ UNCHANGED keyResult
  /\ UNCHANGED <<privateKey, jwkPublic, workflowVars>>

\* The pkcs8 import settles; on success derivePublicKey is entered and
\* crypto.subtle.exportKey("jwk", privateKey) is issued.
ImportPrivateReturns ==
  /\ keyPc = "importPrivate"
  /\ LET call == LastCall(keyCalls)
         data == ExtractFirstPemObject(keyIn.pem)[1]
     IN  \/ /\ Pkcs8Accepted(data, call)
            /\ privateKey' = [type |-> "private",
                              algorithm |-> ImportedAlgorithm(call.params,
                                                              PemKey(data.algorithm)),
                              usages |-> call.usages, material |-> data.material]
            /\ keyCalls' = Append(Settle(keyCalls, "resolved"),
                                  SubtleCall("exportKey", "jwk", NoParams, {}))
            /\ keyPc' = "exportKey"
            /\ UNCHANGED keyResult
         \/ /\ keyResult' = KeyRejected(IF Pkcs8Accepted(data, call)
                                        THEN "OperationError" ELSE "DataError")
            /\ keyCalls' = Settle(keyCalls, "rejected")
            /\ keyPc' = "done"
            /\ UNCHANGED privateKey
  /\ UNCHANGED <<keyIn, jwkPublic, workflowVars>>

\* The jwk export settles; on success the public JWK is derived from it and
\* crypto.subtle.importKey("jwk", jwkPublic, ...) is issued.
ExportKeyReturns ==
  /\ keyPc = "exportKey"
  /\ \/ /\ jwkPublic' = JwkPublic(ExportedJwk(privateKey))
        /\ keyCalls' = Append(Settle(keyCalls, "resolved"),
                              SubtleCall("importKey", "jwk",
                                         GetAlgorithmProperties(
                                           AlgorithmOrDefault(keyIn.keyPairAlgorithm)),
                                         {"verify"}))
        /\ keyPc' = "importPublic"
        /\ UNCHANGED keyResult
     \/ /\ keyResult' = DerivationFails(privateKey, "OperationError")
        /\ keyCalls' = Settle(keyCalls, "rejected")
        /\ keyPc' = "done"
        /\ UNCHANGED jwkPublic
  /\ UNCHANGED <<keyIn, privateKey, workflowVars>>

\* The jwk import settles: derivePublicKey's promise settles with it and the
\* key pair is returned.
ImportPublicReturns ==
  /\ keyPc = "importPublic"
  /\ keyPc' = "done"
  /\ LET call == LastCall(keyCalls)
     IN  \/ /\ JwkAccepted(jwkPublic, call)
            /\ keyResult' =
                 KeyResolved([privateKey |-> privateKey,
                              publicKey |-> [type |-> JwkType(jwkPublic),
                                             algorithm |->
                                               ImportedAlgorithm(call.params, jwkPublic),
                                             usages |-> call.usages,
                                             material |-> jwkPublic.material]])
            /\ keyCalls' = Settle(keyCalls, "resolved")
         \/ /\ keyResult' = DerivationFails(privateKey, JwkError(jwkPublic, call))
            /\ keyCalls' = Settle(keyCalls, "rejected")
  /\ UNCHANGED <<keyIn, privateKey, jwkPublic, workflowVars>>

\* One call of a key utility, on its own.
KeyInit ==
  /\ KeysIdle
  /\ cfg = [updateDnsRecords |-> FALSE, updateHttpResources |-> FALSE,
            domains |-> 1, timeout |-> <<>>, delayAfterDnsRecordsConfirmed |-> <<>>]
  /\ WorkflowIdle

KeyNext ==
  \/ \E a \in AlgorithmArgs : GenerateKeyPair(a)
  \/ \E a \in AlgorithmArgs : UtilsGenerateKeyPair(a)
  \/ GenerateKeyReturns
  \/ \E pem \in PemTexts, a \in AlgorithmArgs : ImportKeyPairFromPemPrivateKey(pem, a)
  \/ ImportPrivateReturns
  \/ ExportKeyReturns
  \/ ImportPublicReturns

KeySpec == KeyInit /\ [][KeyNext]_vars

----------------------------------------------------------------------------
TypeOK ==
  /\ cfg \in Configs
  /\ pc \in MainCalls \cup FanOuts \cup {"start", "failed", "done"}
  /\ challengeRequired \in BOOLEAN
  /\ flow \in {"none", "dns", "http"}
  /\ result \in {"pending", "resolved", "rejected"}
  /\ \A k \in CallKinds : calls[k] \in 0..MaxAuth

----------------------------------------------------------------------------
\* Shorthands of the properties below

Auths == acmeOrder.authorizations

\* The probe has settled and left challengeRequired set.
ChallengePhase == challengeRequired /\ ret["probe"] \notin {"idle", "pending"}

CallbackCalls == calls["updateDnsRecords"] + calls["updateHttpResources"]

\* Calls of the DNS-01 flow alone, and of the HTTP-01 flow alone.
DnsOnlyCalls ==
  calls["findDns01Challenge"] + calls["getDnsRecordAnswer"]
  + calls["updateDnsRecords"] + calls["findAuthoritativeNameServerIps"]
  + calls["pollDnsTxtRecord"] + calls["setTimeout"]

HttpOnlyCalls ==
  calls["findHttp01Challenge"] + calls["getHttpResource"]
  + calls["updateHttpResources"]

\* Every call of the challenge phase.
ChallengeCalls == DnsOnlyCalls + HttpOnlyCalls + calls["submit"]

----------------------------------------------------------------------------
\* C1: if the readiness probe fails with an exception other than a timeout,
\* requestCertificate fails with that error and does no challenge work and
\* no finalize.
C1_ProbeErrorPropagates ==
  ret["probe"] = "error" =>
    /\ result = "rejected"
    /\ error.kind = "error"
    /\ ChallengeCalls = 0
    /\ calls["pollReady"] = 1
    /\ calls["finalize"] = 0

\* C2: when the readiness probe succeeds, no callback is invoked, no challenge
\* is looked up, fetched or submitted, no further 'ready' poll is made, and
\* finalize, then the 'valid' poll, then getCertificate are performed.
C2_FastPath ==
  ret["probe"] = "ok" =>
    /\ ~challengeRequired
    /\ ChallengeCalls = 0
    /\ calls["pollReady"] = 1
    /\ calls["finalize"] = 1
    /\ calls["pollValid"] = (IF ret["finalize"] = "ok" THEN 1 ELSE 0)
    /\ calls["getCertificate"] = (IF ret["awaitValid"] = "ok" THEN 1 ELSE 0)
    /\ ret["awaitValid"] # "idle" => ret["finalize"] = "ok"
    /\ result = "resolved" => ret["getCertificate"] = "ok"

\* A fast-path run with both callbacks supplied that retrieved the certificate.
C2_Witness ==
  /\ ret["probe"] = "ok"
  /\ cfg.updateDnsRecords /\ cfg.updateHttpResources
  /\ result = "resolved"

\* C3: when the probe times out and no callback is supplied,
\* requestCertificate fails with a configuration error, without waiting in
\* the 'ready' poll and without calling finalize or getCertificate.
C3_NoCallbackIsConfigError ==
  (ret["probe"] = "timeout" /\ ~cfg.updateDnsRecords /\ ~cfg.updateHttpResources) =>
    /\ result = "rejected"
    /\ error.kind = "config"
    /\ calls["pollReady"] = 1
    /\ calls["finalize"] = 0
    /\ calls["getCertificate"] = 0

\* C4: in the DNS-01 flow the settle delay starts only after the propagation
\* poll of every expected record has resolved, and no submit() is issued
\* before the settle delay has elapsed.
C4_SettleAfterAllConfirmed ==
  flow = "dns" =>
    /\ calls["setTimeout"] > 0 =>
         \A i \in DOMAIN branch : branch[i].ns = "ok" /\ branch[i].dnsPoll = "ok"
    /\ \A i \in DOMAIN branch : branch[i].submit # "idle" => ret["settle"] = "ok"
    /\ calls["submit"] > 0 => ret["settle"] = "ok"

\* The DNS-01 flow of an order with several authorizations reached submission.
C4_Witness ==
  /\ flow = "dns"
  /\ NAuth >= 2
  /\ \A i \in DOMAIN branch : branch[i].submit = "pending"

\* C5: the fulfillment callback is invoked at most once, and only with one
\* expected record/resource for every authorization of the order; if any
\* expected-answer fetch fails it is never invoked.
C5_CallbackOnceWithFullBatch ==
  /\ CallbackCalls <= 1
  /\ CallbackCalls = 0 => callbackArg = <<>>
  /\ CallbackCalls = 1 =>
       /\ Len(callbackArg) = NAuth
       /\ \A i \in 1..NAuth : \E j \in 1..Len(callbackArg) : callbackArg[j] = Answer(flow, i)
  /\ (\E i \in DOMAIN branch : branch[i].fetch = "error") =>
       /\ CallbackCalls = 0
       /\ result = "rejected"

\* The callback was invoked for an order with several authorizations.
C5_Witness ==
  /\ NAuth >= 2
  /\ CallbackCalls = 1
  /\ ret["callback"] = "ok"

\* C6: when updateDnsRecords is configured, a challenge is required and some
\* authorization has no dns-01 challenge, requestCertificate fails at once
\* with an error naming such an authorization, and no network call is issued
\* for any authorization.
C6_MissingDns01FailsFast ==
  (/\ cfg.updateDnsRecords
   /\ ChallengePhase
   /\ \E i \in DOMAIN Auths : ~Auths[i].dns01) =>
    /\ result = "rejected"
    /\ error.stage = "findDns01Challenge"
    /\ error.auth \in DOMAIN Auths
    /\ ~Auths[error.auth].dns01
    /\ calls["getDnsRecordAnswer"] = 0
    /\ calls["updateDnsRecords"] = 0
    /\ calls["findAuthoritativeNameServerIps"] = 0
    /\ calls["pollDnsTxtRecord"] = 0
    /\ calls["submit"] = 0
    /\ calls["pollReady"] = 1
    /\ calls["finalize"] = 0
    /\ HttpOnlyCalls = 0

\* The last authorization of several lacks the dns-01 challenge, the others have it.
C6_Witness ==
  /\ cfg.updateDnsRecords
  /\ ChallengePhase
  /\ NAuth >= 2
  /\ ~Auths[NAuth].dns01
  /\ \A i \in 1..(NAuth - 1) : Auths[i].dns01
  /\ error.auth = NAuth

\* C7: in the DNS-01 flow, if the propagation poll of any expected record
\* times out or its name-server lookup fails, requestCertificate fails with
\* such an error, no challenge is submitted, and the order is neither polled
\* for 'ready' again nor finalized.
C7_PropagationFailureAborts ==
  (\E i \in DOMAIN branch : branch[i].dnsPoll = "timeout" \/ branch[i].ns = "error") =>
    /\ flow = "dns"
    /\ result = "rejected"
    /\ error.auth \in DOMAIN branch
    /\ \/ error.stage = "pollDnsTxtRecord" /\ branch[error.auth].dnsPoll = "timeout"
       \/ error.stage = "findAuthoritativeNameServerIps" /\ branch[error.auth].ns = "error"
    /\ calls["setTimeout"] = 0
    /\ calls["submit"] = 0
    /\ calls["pollReady"] = 1
    /\ calls["finalize"] = 0

\* One record's propagation was confirmed and another record's poll timed out.
C7_Witness ==
  /\ \E i \in DOMAIN branch : branch[i].dnsPoll = "ok"
  /\ \E i \in DOMAIN branch : branch[i].dnsPoll = "timeout"
  /\ result = "rejected"

\* C8: finalize is called only after a pollStatus('ready') succeeded, and
\* getCertificate only after finalize returned and the pollStatus('valid')
\* succeeded; a failed await-ready poll means no finalize, a failed
\* await-valid poll means no getCertificate, and both fail the workflow.
C8_FinalizeAfterReady ==
  /\ calls["finalize"] > 0 => (ret["probe"] = "ok" \/ ret["awaitReady"] = "ok")
  /\ calls["pollValid"] > 0 => ret["finalize"] = "ok"
  /\ calls["getCertificate"] > 0 => (ret["finalize"] = "ok" /\ ret["awaitValid"] = "ok")
  /\ ret["awaitReady"] \in {"timeout", "error"} =>
       (calls["finalize"] = 0 /\ result = "rejected" /\ error.stage = "pollReady")
  /\ ret["awaitValid"] \in {"timeout", "error"} =>
       (calls["getCertificate"] = 0 /\ result = "rejected" /\ error.stage = "pollValid")

\* A run through the challenge phase whose await-ready poll succeeded and
\* that went on to retrieve the certificate.
C8_Witness ==
  /\ ret["probe"] = "timeout"
  /\ ret["awaitReady"] = "ok"
  /\ calls["submit"] > 0
  /\ ret["getCertificate"] = "ok"

\* The flow selected once a challenge is known to be required: its lookups
\* have been made and no call of the other flow.
DnsFlowSelected ==
  flow = "dns" /\ calls["findDns01Challenge"] > 0 /\ HttpOnlyCalls = 0

HttpFlowSelected ==
  flow = "http" /\ calls["findHttp01Challenge"] > 0 /\ DnsOnlyCalls = 0

\* C9: exactly one challenge flow is selected per invocation that requires a
\* challenge, and DNS takes precedence: when both callbacks are supplied and
\* a challenge is required only the DNS-01 flow runs; updateHttpResources is
\* never invoked and no http-01 challenge is looked up, fetched or submitted.
C9_ExactlyOneFlow ==
  /\ DnsOnlyCalls = 0 \/ HttpOnlyCalls = 0
  /\ ChallengePhase => (DnsFlowSelected \/ HttpFlowSelected)
  /\ (cfg.updateDnsRecords /\ cfg.updateHttpResources /\ ChallengePhase) =>
       DnsFlowSelected

\* The part of C9 that holds: never both flows; with at least one callback
\* supplied and a challenge required exactly one flow is selected, the DNS-01
\* flow whenever updateDnsRecords is supplied; with both supplied
\* updateHttpResources is never invoked and no http-01 challenge is looked
\* up, fetched or submitted.
C9_DnsPrecedence ==
  /\ DnsOnlyCalls = 0 \/ HttpOnlyCalls = 0
  /\ ~ChallengePhase => (flow = "none" /\ ChallengeCalls = 0)
  /\ (ChallengePhase /\ cfg.updateDnsRecords) => DnsFlowSelected
  /\ (ChallengePhase /\ ~cfg.updateDnsRecords /\ cfg.updateHttpResources) =>
       HttpFlowSelected
  /\ calls["submit"] > 0 =>
       \/ flow = "dns" /\ calls["updateDnsRecords"] = 1 /\ HttpOnlyCalls = 0
       \/ flow = "http" /\ calls["updateHttpResources"] = 1 /\ DnsOnlyCalls = 0
  /\ (cfg.updateDnsRecords /\ cfg.updateHttpResources /\ ChallengePhase) =>
       /\ flow = "dns"
       /\ calls["findDns01Challenge"] > 0
       /\ HttpOnlyCalls = 0

\* Both callbacks supplied, every authorization offers both challenge types,
\* and the challenges were submitted.
C9_Witness ==
  /\ cfg.updateDnsRecords /\ cfg.updateHttpResources
  /\ NAuth >= 2
  /\ \A i \in DOMAIN Auths : Auths[i].dns01 /\ Auths[i].http01
  /\ \A i \in DOMAIN branch : branch[i].submit = "ok"

\* C10: in the HTTP-01 flow every authorization's http-01 challenge is looked
\* up, then every expected resource is fetched, then updateHttpResources is
\* invoked once with the full list, and only after it completed is each
\* challenge submitted; no name-server lookup, DNS propagation poll or settle
\* delay occurs.
C10_HttpFlowOrder ==
  flow = "http" =>
    /\ calls["getHttpResource"] > 0 =>
         (calls["findHttp01Challenge"] = NAuth /\ calls["getHttpResource"] = NAuth)
    /\ calls["updateHttpResources"] > 0 =>
         /\ calls["updateHttpResources"] = 1
         /\ \A i \in DOMAIN branch : branch[i].fetch = "ok"
         /\ callbackArg = [i \in 1..NAuth |-> Answer("http", i)]
    /\ calls["submit"] > 0 => (ret["callback"] = "ok" /\ calls["submit"] = NAuth)
    /\ (\A i \in DOMAIN branch : branch[i].submit = "idle") \/ ret["callback"] = "ok"
    /\ calls["findAuthoritativeNameServerIps"] = 0
    /\ calls["pollDnsTxtRecord"] = 0
    /\ calls["setTimeout"] = 0
    /\ ret["settle"] = "idle"
    /\ DnsOnlyCalls = 0

\* The HTTP-01 flow of an order with several authorizations submitted its challenges.
C10_Witness ==
  /\ flow = "http"
  /\ ~cfg.updateDnsRecords
  /\ NAuth >= 2
  /\ \A i \in DOMAIN branch : branch[i].submit = "ok"
  /\ pc = "awaitReady"

\* C11: requestCertificate either resolves with the complete triple or fails
\* with one error.  It resolves only if createOrder, finalize, the 'valid'
\* poll and getCertificate all succeeded; the certKeyPair it returns is the
\* one finalize returned, the certificate the one getCertificate returned,
\* the order the one createOrder returned; a result is never partially filled.
C11_CompleteResultOrError ==
  /\ result = "resolved" =>
       /\ ret["createOrder"] = "ok"
       /\ ret["finalize"] = "ok"
       /\ ret["awaitValid"] = "ok"
       /\ ret["getCertificate"] = "ok"
       /\ returned.certificate = certificate /\ certificate \in Certificates
       /\ returned.certKeyPair = certKeyPair /\ certKeyPair \in KeyPairs
       /\ returned.acmeOrder = acmeOrder /\ acmeOrder \in Orders(cfg.domains)
       /\ error = NoError
  /\ result = "rejected" => (returned = NoValue /\ error # NoError)
  /\ result = "pending" => (returned = NoValue /\ error = NoError)

\* requestCertificate resolved after a challenge phase over several authorizations.
C11_Witness ==
  /\ result = "resolved"
  /\ NAuth >= 2
  /\ calls["submit"] = NAuth

\* C12: no automatic retries: createOrder, the fulfillment callback, finalize
\* and getCertificate are each called at most once, each challenge's
\* expected-answer fetch and submit() at most once, pollStatus('ready') at
\* most twice and pollStatus('valid') at most once.
C12_NoRetries ==
  /\ calls["createOrder"] <= 1
  /\ CallbackCalls <= 1
  /\ calls["finalize"] <= 1
  /\ calls["getCertificate"] <= 1
  /\ calls["pollReady"] <= 2
  /\ calls["pollValid"] <= 1
  /\ calls["setTimeout"] <= 1
  /\ \A i \in DOMAIN branch :
       /\ branch[i].fetchCalls <= 1
       /\ branch[i].submitCalls <= 1
       /\ branch[i].nsCalls <= 1
       /\ branch[i].pollCalls <= 1
  /\ calls["getDnsRecordAnswer"] + calls["getHttpResource"] <= NAuth
  /\ calls["submit"] <= NAuth
  /\ calls["findDns01Challenge"] + calls["findHttp01Challenge"] <= NAuth

\* A step failed after the probe and the await-readiness poll were both made:
\* the failed 'valid' poll was not issued again.
C12_Witness ==
  /\ calls["pollReady"] = 2
  /\ ret["awaitValid"] = "timeout"
  /\ \A i \in DOMAIN branch : branch[i].fetchCalls = 1 /\ branch[i].submitCalls = 1
  /\ result = "rejected"

\* The branches of a fan-out whose promise has rejected.
Failed(stage, b) ==
  {i \in DOMAIN b : Promises(stage, b)[i] \in {"error", "timeout"}}

\* The calls through which a branch of a fan-out can fail.
StageErrors(stage) ==
  CASE stage = "fetch"   -> {"getDnsRecordAnswer", "getHttpResource"}
    [] stage = "confirm" -> {"findAuthoritativeNameServerIps", "pollDnsTxtRecord"}
    [] stage = "submit"  -> {"submit"}

\* The stage after a fan-out is started only when every branch succeeded,
\* and a failed branch means requestCertificate failed without starting it.
C15_Stages ==
  /\ CallbackCalls > 0 => \A i \in DOMAIN branch : branch[i].fetch = "ok"
  /\ calls["setTimeout"] > 0 => \A i \in DOMAIN branch : branch[i].dnsPoll = "ok"
  /\ (flow # "none" /\ calls["pollReady"] = 2) =>
       \A i \in DOMAIN branch : branch[i].submit = "ok"
  /\ Failed("fetch", branch) # {} => (result = "rejected" /\ CallbackCalls = 0)
  /\ Failed("confirm", branch) # {} => (result = "rejected" /\ calls["setTimeout"] = 0)
  /\ Failed("submit", branch) # {} => (result = "rejected" /\ calls["pollReady"] = 1)

\* The step in which the first branch of a fan-out fails rejects
\* requestCertificate with the error of that branch.
C15_FirstFailure ==
  \A stage \in FanOuts :
    (Failed(stage, branch) = {} /\ Failed(stage, branch') # {}) =>
      /\ result = "pending" /\ result' = "rejected"
      /\ error'.auth \in Failed(stage, branch')
      /\ error'.stage \in StageErrors(stage)

\* Once requestCertificate has failed, the reported error does not change.
C15_ErrorKept == result = "rejected" => (result' = "rejected" /\ error' = error)

\* C15: every fan-out is all-or-nothing: the next stage starts only when
\* every branch has succeeded; if a branch fails, requestCertificate fails
\* with the error of the first branch to fail, the later stage is never
\* started, and later failures or results of other branches are not reported.
C15_AllOrNothing == []C15_Stages /\ [][C15_FirstFailure /\ C15_ErrorKept]_vars

\* Two branches of the DNS confirmation failed; the error is that of the
\* name-server lookup although a propagation poll timed out as well.
C15_Witness ==
  /\ Cardinality(Failed("confirm", branch)) >= 2
  /\ error.stage = "findAuthoritativeNameServerIps"
  /\ \E i \in DOMAIN branch : branch[i].dnsPoll = "timeout"

\* C16: once requestCertificate has failed, no new collaborator call is
\* initiated on its behalf; in particular no branch of the DNS confirmation
\* starts a pollDnsTxtRecord after another branch has failed.
C16_NoCallAfterFailure == [][result = "rejected" => calls' = calls]_vars

\* C17: the readiness probe always uses the fixed timeout of 1 ms, whatever
\* config.timeout is; the await-readiness poll, the await-validity poll and
\* every DNS propagation poll use config.timeout, or 30000 ms when it is not
\* supplied; the settle delay is 5000 ms when delayAfterDnsRecordsConfirmed
\* is not supplied.
C17_Timeouts ==
  LET configured == IF cfg.timeout = <<>> THEN <<30000>> ELSE cfg.timeout
      delay == IF cfg.delayAfterDnsRecordsConfirmed = <<>> THEN <<5000>>
               ELSE cfg.delayAfterDnsRecordsConfirmed
  IN /\ timeouts["probe"] = (IF calls["pollReady"] >= 1 THEN <<1>> ELSE <<>>)
     /\ timeouts["awaitReady"] = (IF calls["pollReady"] = 2 THEN configured ELSE <<>>)
     /\ timeouts["awaitValid"] = (IF calls["pollValid"] = 1 THEN configured ELSE <<>>)
     /\ timeouts["settle"] = (IF calls["setTimeout"] = 1 THEN delay ELSE <<>>)
     /\ \A i \in DOMAIN branch :
          branch[i].pollTimeout = (IF branch[i].pollCalls = 1 THEN configured ELSE <<>>)

\* A DNS-01 run without timeout and delay in the config got as far as the
\* 'valid' poll.
C17_Witness ==
  /\ cfg.timeout = <<>>
  /\ cfg.delayAfterDnsRecordsConfirmed = <<>>
  /\ \A i \in DOMAIN branch : branch[i].pollTimeout = <<30000>>
  /\ timeouts = [s \in TimedCalls |-> IF s = "probe" THEN <<1>>
                                       ELSE IF s = "settle" THEN <<5000>>
                                       ELSE <<30000>>]

\* C18: the list handed to the fulfillment callback is in authorization
\* order whatever the order in which the fetches complete: its i-th element
\* is the expected record/resource of the challenge of the i-th
\* authorization; and the challenges submitted are those same challenges,
\* one per authorization.
C18_AuthorizationOrder ==
  /\ CallbackCalls = 1 =>
       /\ Len(callbackArg) = NAuth
       /\ \A i \in 1..NAuth : callbackArg[i] = [type |-> flow, auth |-> i]
       /\ \A i \in 1..NAuth : branch[i].challenge = [type |-> flow, auth |-> i]
  /\ calls["submit"] > 0 =>
       \A i \in 1..NAuth :
         /\ branch[i].submitCalls = 1
         /\ branch[i].submitted = [type |-> flow, auth |-> i]
         /\ branch[i].answer = callbackArg[i]

\* The fetch of the last authorization completed first, and the challenges
\* were submitted.
C18_Witness ==
  /\ NAuth >= 2
  /\ branch[NAuth].rank = 1
  /\ branch[1].rank = NAuth
  /\ CallbackCalls = 1
  /\ calls["submit"] = NAuth

\* C19: when every collaborator call and the settle timer eventually resolve
\* or fail, every invocation of requestCertificate eventually resolves with a
\* result or fails with an error, for every callback configuration.
C19_Terminates == (pc = "createOrder") ~> (result # "pending")

\* The invocation without any callback ended: its await-readiness poll timed out.
C19_Witness ==
  /\ ~cfg.updateDnsRecords /\ ~cfg.updateHttpResources
  /\ ret["probe"] = "timeout"
  /\ ret["awaitReady"] = "timeout"
  /\ result = "rejected"

----------------------------------------------------------------------------
\* Properties of the key utilities

\* The integer a big-endian byte array encodes.
RECURSIVE BigEndian(_)
BigEndian(bytes) ==
  IF bytes = <<>> THEN 0
  ELSE 256 * BigEndian(SubSeq(bytes, 1, Len(bytes) - 1)) + bytes[Len(bytes)]

\* params are the parameters the Registry is documented to hold for a:
\* ec: ECDSA over P-256; rsa: RSASSA-PKCS1-v1_5, 2048 bit, exponent 65537,
\* SHA-256; rsa-4096: the same with 4096 bit.
RegistryParams(params, a) ==
  CASE a = "ec" -> params.name = "ECDSA" /\ params.namedCurve = "P-256"
    [] a = "rsa" -> /\ params.name = "RSASSA-PKCS1-v1_5"
                    /\ params.modulusLength = 2048
                    /\ BigEndian(params.publicExponent) = 65537
                    /\ params.hash = "SHA-256"
    [] a = "rsa-4096" -> /\ params.name = "RSASSA-PKCS1-v1_5"
                         /\ params.modulusLength = 4096
                         /\ BigEndian(params.publicExponent) = 65537
                         /\ params.hash = "SHA-256"
    [] OTHER -> FALSE

GenerateFns == {"generateKeyPair", "utils.generateKeyPair"}

\* C13: for every KeyPairAlgorithm, generateKeyPair(algorithm) generates the
\* key pair with exactly the Registry's parameters for that algorithm (ec
\* when none is given) and with the sign and verify usages, the key pair it
\* returns can sign and verify, and the Registry is defined on every
\* algorithm and maps no two of them to the same parameters.
C13_GenerateUsesRegistry ==
  /\ \A a \in KeyPairAlgorithms : RegistryParams(GetAlgorithmProperties(a), a)
  /\ \A a, b \in KeyPairAlgorithms :
       a # b => GetAlgorithmProperties(a) # GetAlgorithmProperties(b)
  /\ keyIn.fn \in GenerateFns =>
       /\ \A i \in DOMAIN keyCalls :
            /\ keyCalls[i].op = "generateKey"
            /\ RegistryParams(keyCalls[i].params,
                              AlgorithmOrDefault(keyIn.keyPairAlgorithm))
            /\ keyCalls[i].usages = {"sign", "verify"}
       /\ keyResult.status = "resolved" =>
            /\ RegistryParams(keyResult.keyPair.privateKey.algorithm,
                              AlgorithmOrDefault(keyIn.keyPairAlgorithm))
            /\ "sign" \in keyResult.keyPair.privateKey.usages
            /\ "verify" \in keyResult.keyPair.publicKey.usages

\* The same statement for the generateKeyPair that reads its argument.
C13_RegistryVersionConforms ==
  keyIn.fn = "utils.generateKeyPair" \/ C13_GenerateUsesRegistry

\* alg is an algorithm attribute of the family the Registry holds for a:
\* ECDSA over P-256, or RSASSA-PKCS1-v1_5 with SHA-256.
RegistryFamily(alg, a) ==
  IF a = "ec"
  THEN alg.name = "ECDSA" /\ alg.namedCurve = "P-256"
  ELSE alg.name = "RSASSA-PKCS1-v1_5" /\ alg.hash = "SHA-256"

\* C14: importKeyPairFromPemPrivateKey never returns a partial key pair. When
\* the PEM extraction, the private import or a step of the derivation fails,
\* the promise is rejected with an error and carries no key; when it is
\* resolved, the pair holds a private key with the sign usage only and a
\* public key with the verify usage only, derived from it (same material,
\* same algorithm attribute). Both imports are made under the Registry
\* parameters of the one requested algorithm, the private one for sign and
\* the public one for verify, and the keys carry that algorithm's name and
\* hash (or curve).
C14_NoPartialKeyPair ==
  keyIn.fn = "importKeyPairFromPemPrivateKey" =>
    LET a == AlgorithmOrDefault(keyIn.keyPairAlgorithm)
        kp == keyResult.keyPair
        failed == \/ ~keyIn.pem.object
                  \/ \E i \in DOMAIN keyCalls : keyCalls[i].outcome = "rejected"
    IN  /\ keyResult.status \in {"pending", "rejected"} => kp = NoKeyPair
        /\ keyResult.status = "rejected" <=> failed
        /\ keyResult.status = "rejected" => keyResult.error # "none"
        /\ \A i \in DOMAIN keyCalls :
             keyCalls[i].op = "importKey" =>
               /\ RegistryParams(keyCalls[i].params, a)
               /\ keyCalls[i].usages =
                    (IF keyCalls[i].format = "pkcs8" THEN {"sign"} ELSE {"verify"})
        /\ keyResult.status = "resolved" =>
             /\ kp.privateKey.type = "private"
             /\ kp.privateKey.usages = {"sign"}
             /\ kp.publicKey.type = "public"
             /\ kp.publicKey.usages = {"verify"}
             /\ kp.privateKey.material = keyIn.pem.material
             /\ kp.publicKey.material = keyIn.pem.material
             /\ kp.publicKey.algorithm = kp.privateKey.algorithm
             /\ RegistryFamily(kp.privateKey.algorithm, a)
             /\ Len(keyCalls) = 3

\* A stronger statement, which is not an invariant: the keys of a resolved
\* import have every Registry parameter of the requested algorithm, the
\* modulus length among them. The import of an RSA key does not compare the
\* modulus length, so a 2048 bit PEM imported as "rsa-4096" resolves with
\* 2048 bit keys.
C14_KeysHaveRegistryParams ==
  (keyIn.fn = "importKeyPairFromPemPrivateKey" /\ keyResult.status = "resolved") =>
    /\ RegistryParams(keyResult.keyPair.privateKey.algorithm,
                      AlgorithmOrDefault(keyIn.keyPairAlgorithm))
    /\ RegistryParams(keyResult.keyPair.publicKey.algorithm,
                      AlgorithmOrDefault(keyIn.keyPairAlgorithm))

\* The private key of an RSA PEM was imported and its derivation failed.
C14_Witness ==
  /\ keyIn.fn = "importKeyPairFromPemPrivateKey"
  /\ keyIn.keyPairAlgorithm = "rsa-4096"
  /\ privateKey.type = "private"
  /\ keyCalls # <<>> /\ LastCall(keyCalls).outcome = "rejected"
  /\ keyPc = "done"

====
